---- MODULE Spec2Model ----
(***************************************************************************)
(* Model of webrtc::Subtractor (modules/audio_processing/aec3/             *)
(* subtractor.cc): the prediction-error stage, the echo-path-change        *)
(* handler and the per-block Process pipeline with its sticky              *)
(* converged_filter_ flag.                                                  *)
(*                                                                         *)
(* Time-domain blocks are functions over 0 .. kBlockSize-1 of integers.    *)
(* Frequency-domain values (FftData, power spectra) produced by the        *)
(* external transform are kept as terms naming the transform and its       *)
(* argument; the all-zero block is mapped to the canonical zero term so    *)
(* that equal spectra are equal terms.  Sample energies are exact sums     *)
(* kept in two limbs, since a block of full-scale squares exceeds 2^31.    *)
(***************************************************************************)
EXTENDS Integers, Sequences, FiniteSets, TLC

\* ---------------------------------------------------------------- sizes

\* aec3_common.h: the FFT works on 2 * 64 samples, a block is half of it.
kFftLengthBy2 == 64
kFftLength == 2 * kFftLengthBy2
kBlockSize == kFftLengthBy2

\* Largest coefficient value an adaptive filter takes in the model.
MaxCoeff == 1
\* Largest partition count a filter takes in the model.
MaxPartitions == 2

Index == 0 .. (kBlockSize - 1)
FftIndex == 0 .. (kFftLength - 1)

ConstBlock(a) == [i \in Index |-> a]
AltBlock(a) == [i \in Index |-> IF i % 2 = 0 THEN a ELSE -a]
ZeroBlock == ConstBlock(0)

\* ------------------------------------------------------------- inputs

\* Render histories the caller hands to Process, by the latest render block.
RenderBlock(r) ==
  CASE r = "silent" -> ZeroBlock
    [] r = "tone"   -> ConstBlock(1000)
    [] r = "full"   -> AltBlock(32767)

\* What the caller presents for one block: a render history and the
\* capture block y recorded against it.  Silence; a block at and one just
\* above the energy floor (kBlockSize * 50 * 50); the same floor block over
\* a loud render; a capture twice the render tone; full scale alternating
\* in both; captures beyond the 16-bit range on either side, without and
\* with an echo estimate.
Blocks ==
  { <<"silent", ZeroBlock>>,
    <<"silent", ConstBlock(50)>>,
    <<"silent", ConstBlock(51)>>,
    <<"tone", ConstBlock(50)>>,
    <<"tone", ConstBlock(2000)>>,
    <<"full", AltBlock(32767)>>,
    <<"silent", AltBlock(40000)>>,
    <<"full", ConstBlock(-40000)>> }

DelayAdjustment ==
  {"kNone", "kBufferReadjustment", "kBufferFlush", "kDelayReset",
   "kNewDetectedDelay"}

EchoPathVariabilities ==
  [gain_change : BOOLEAN, delay_change : DelayAdjustment]

\* ------------------------------------------- external collaborators

\* AdaptiveFirFilter: the constructor takes the partition count; the
\* coefficients start at zero.
NewFilter(length_blocks) == [H |-> 0, size_partitions |-> length_blocks]

FilterStates == [H : 0 .. MaxCoeff, size_partitions : 1 .. MaxPartitions]

\* AdaptiveFirFilter::Adapt: the coefficients it leaves depend on the gain,
\* whose mathematics is outside this file, so they are any coefficients.
\* The partition count is kept, or, where the filter may resize while it
\* adapts (resizing), is any count.
AdaptOutcomes(filter, resizing) ==
  {f \in FilterStates :
     resizing \/ f.size_partitions = filter.size_partitions}

\* AdaptiveFirFilter::HandleEchoPathChange: clears coefficients and history.
FilterReset(filter) == [filter EXCEPT !.H = 0]

\* AdaptiveFirFilter::Filter: the echo estimate S, named by the
\* coefficients and the render history it was formed from.
Filter(filter, render_buffer) == [coeff |-> filter.H, render |-> render_buffer]

\* Aec3Fft::Ifft, unnormalised (a factor kFftLengthBy2): the second half
\* of the buffer is the linear convolution for the current block, the
\* first half is circular wrap-around.
Ifft(S) ==
  [k \in FftIndex |->
     IF k < kFftLengthBy2
       THEN (0 - 2) * kFftLengthBy2 * S.coeff * RenderBlock(S.render)[k]
       ELSE kFftLengthBy2 * S.coeff * RenderBlock(S.render)[k - kFftLengthBy2]]

\* Aec3Fft::ZeroPaddedFft: a term naming the window and the block; the
\* transform of silence is the zero spectrum under either window.
ZeroFftData == [window |-> "zero", x |-> ZeroBlock]

ZeroPaddedFft(x, window) ==
  IF x = ZeroBlock THEN ZeroFftData ELSE [window |-> window, x |-> x]

\* FftData::Spectrum
Spectrum(E) == [spectrum_of |-> E]

\* RenderBuffer::SpectralSum over the last n partitions; a silent history
\* sums to zero whatever n is.
SpectralSum(render_buffer, n) ==
  IF render_buffer = "silent"
    THEN [render |-> "silent", partitions |-> 0]
    ELSE [render |-> render_buffer, partitions |-> n]

\* rtc::SafeClamp
SafeClamp(a, lo, hi) == IF a < lo THEN lo ELSE IF a > hi THEN hi ELSE a

\* ------------------------------------------------ exact sample energy

\* Energies are <<high, low>> with value high * Limb + low, 0 <= low < Limb.
Limb == 2 ^ 15

Norm(hi, lo) == <<hi + (lo \div Limb), lo % Limb>>

FromInt(n) == Norm(0, n)

Times(k, a) == Norm(k * a[1], k * a[2])

Greater(a, b) == a[1] > b[1] \/ (a[1] = b[1] /\ a[2] > b[2])

\* The lambda sum_of_squares: a + b * b.
sum_of_squares(a, b) == Norm(a[1] + ((b * b) \div Limb), a[2] + ((b * b) % Limb))

Plus(a, b) == Norm(a[1] + b[1], a[2] + b[2])

\* std::accumulate(begin, end, 0.f, sum_of_squares) over samples lo .. hi.
\* The sum is exact here, so it is taken by halves to keep the recursion
\* shallow; the order of an exact sum does not change it.
RECURSIVE accumulate(_, _, _)
accumulate(block, lo, hi) ==
  IF lo = hi THEN sum_of_squares(<<0, 0>>, block[lo])
  ELSE LET mid == (lo + hi) \div 2
       IN Plus(accumulate(block, lo, mid), accumulate(block, mid + 1, hi))

\* ------------------------------------------------------------- state

VARIABLES
  converged_filter_,  \* the sticky convergence flag
  main_filter_,       \* main adaptive filter: coefficients, partition count
  shadow_filter_,     \* shadow adaptive filter
  G_main_,            \* main gain computer
  G_shadow_,          \* shadow gain computer
  output,             \* the caller's SubtractorOutput record
  shadow_compute,     \* arguments of the latest G_shadow_.Compute call
  call                \* the latest call: operation, arguments, prior state

vars ==
  <<converged_filter_, main_filter_, shadow_filter_, G_main_, G_shadow_,
    output, shadow_compute, call>>

\* The members of the Subtractor object.
subtractor ==
  <<converged_filter_, main_filter_, shadow_filter_, G_main_, G_shadow_>>

\* ---------------------------------------------------- PredictionError

\* PredictionError without the final clamp.
PredictionError_NoClamp(S, y, has_s) ==
  LET tmp == Ifft(S)
  IN [e |-> [i \in Index |-> y[i] - (tmp[i + kFftLengthBy2] \div kFftLengthBy2)],
      s |-> IF has_s
              THEN [k \in Index |-> tmp[k + kFftLengthBy2] \div kFftLengthBy2]
              ELSE ZeroBlock]

\* PredictionError with the operands of the subtraction exchanged.
PredictionError_Swapped(S, y, has_s) ==
  LET tmp == Ifft(S)
      e == [i \in Index |-> (tmp[i + kFftLengthBy2] \div kFftLengthBy2) - y[i]]
  IN [e |-> [i \in Index |-> SafeClamp(e[i], -32768, 32767)],
      s |-> IF has_s
              THEN [k \in Index |-> tmp[k + kFftLengthBy2] \div kFftLengthBy2]
              ELSE ZeroBlock]

\* PredictionError reading the first half of the inverse transform.
PredictionError_FirstHalf(S, y, has_s) ==
  LET tmp == Ifft(S)
      e == [i \in Index |-> y[i] - (tmp[i] \div kFftLengthBy2)]
  IN [e |-> [i \in Index |-> SafeClamp(e[i], -32768, 32767)],
      s |-> IF has_s
              THEN [k \in Index |-> tmp[k] \div kFftLengthBy2]
              ELSE ZeroBlock]

\* PredictionError(fft, S, y, e, s): the clipped error block e and, when s
\* is requested (has_s), the scaled echo estimate s.
PredictionError(S, y, has_s) ==
  LET tmp == Ifft(S)
      e == [i \in Index |-> y[i] - (tmp[i + kFftLengthBy2] \div kFftLengthBy2)]
  IN [e |-> [i \in Index |-> SafeClamp(e[i], -32768, 32767)],
      s |-> IF has_s
              THEN [k \in Index |-> tmp[k + kFftLengthBy2] \div kFftLengthBy2]
              ELSE ZeroBlock]

\* ----------------------------------------------- HandleEchoPathChange

\* The lambda full_reset, as the new values of the members.
full_reset(echo_path_variability) ==
  [main_filter_ |-> FilterReset(main_filter_),
   shadow_filter_ |-> FilterReset(shadow_filter_),
   G_main_ |-> "initial",
   G_shadow_ |-> "initial",
   converged_filter_ |-> FALSE]

no_reset ==
  [main_filter_ |-> main_filter_,
   shadow_filter_ |-> shadow_filter_,
   G_main_ |-> G_main_,
   G_shadow_ |-> G_shadow_,
   converged_filter_ |-> converged_filter_]

\* The chain without its last branch.
EchoPathChangeResult_NoReadjustment(echo_path_variability) ==
  IF \/ echo_path_variability.delay_change = "kBufferFlush"
     \/ echo_path_variability.delay_change = "kDelayReset"
    THEN full_reset(echo_path_variability)
  ELSE IF echo_path_variability.delay_change = "kNewDetectedDelay"
    THEN full_reset(echo_path_variability)
  ELSE no_reset

\* The chain ending in an unconditional reset.
EchoPathChangeResult_AlwaysReset(echo_path_variability) ==
  full_reset(echo_path_variability)

\* The if/else-if chain over delay_change.
EchoPathChangeResult(echo_path_variability) ==
  IF \/ echo_path_variability.delay_change = "kBufferFlush"
     \/ echo_path_variability.delay_change = "kDelayReset"
    THEN full_reset(echo_path_variability)
  ELSE IF echo_path_variability.delay_change = "kNewDetectedDelay"
    THEN full_reset(echo_path_variability)
  ELSE IF echo_path_variability.delay_change = "kBufferReadjustment"
    THEN full_reset(echo_path_variability)
  ELSE no_reset

NoCall ==
  [op |-> "none", delay_change |-> "kNone", render_buffer |-> "silent",
   capture |-> ZeroBlock, converged_before |-> FALSE,
   H_main |-> 0, H_shadow |-> 0]

HandleEchoPathChange(echo_path_variability) ==
  LET r == EchoPathChangeResult(echo_path_variability) IN
  /\ main_filter_' = r.main_filter_
  /\ shadow_filter_' = r.shadow_filter_
  /\ G_main_' = r.G_main_
  /\ G_shadow_' = r.G_shadow_
  /\ converged_filter_' = r.converged_filter_
  /\ call' = [NoCall EXCEPT !.op = "HandleEchoPathChange",
                            !.delay_change = echo_path_variability.delay_change,
                            !.converged_before = converged_filter_,
                            !.H_main = main_filter_.H,
                            !.H_shadow = shadow_filter_.H]
  /\ UNCHANGED <<output, shadow_compute>>

\* ------------------------------------------------------------ Process

\* The convergence test run on every block.
UpdateConverged_Unguarded(converged, e_main, e_shadow, y) ==
  LET e2_main == accumulate(e_main, 0, kBlockSize - 1)
      e2_shadow == accumulate(e_shadow, 0, kBlockSize - 1)
      y2 == accumulate(y, 0, kBlockSize - 1)
  IN IF Greater(y2, FromInt(kBlockSize * 50 * 50))
       THEN \/ Greater(Times(10, e2_main), Times(3, y2))
            \/ Greater(Times(10, e2_shadow), y2)
       ELSE converged

\* The convergence test with the floor compared by >=.
UpdateConverged_FloorInclusive(converged, e_main, e_shadow, y) ==
  IF ~converged
    THEN LET e2_main == accumulate(e_main, 0, kBlockSize - 1)
             e2_shadow == accumulate(e_shadow, 0, kBlockSize - 1)
             y2 == accumulate(y, 0, kBlockSize - 1)
         IN IF ~Greater(FromInt(kBlockSize * 50 * 50), y2)
              THEN \/ Greater(Times(10, e2_main), Times(3, y2))
                   \/ Greater(Times(10, e2_shadow), y2)
              ELSE converged
    ELSE converged

\* The convergence test on the main error alone.
UpdateConverged_MainOnly(converged, e_main, e_shadow, y) ==
  IF ~converged
    THEN LET e2_main == accumulate(e_main, 0, kBlockSize - 1)
             y2 == accumulate(y, 0, kBlockSize - 1)
         IN IF Greater(y2, FromInt(kBlockSize * 50 * 50))
              THEN Greater(Times(10, e2_main), Times(3, y2))
              ELSE converged
    ELSE converged

\* The convergence test, run only while the flag is false.
UpdateConverged(converged, e_main, e_shadow, y) ==
  IF ~converged
    THEN LET e2_main == accumulate(e_main, 0, kBlockSize - 1)
             e2_shadow == accumulate(e_shadow, 0, kBlockSize - 1)
             y2 == accumulate(y, 0, kBlockSize - 1)
         IN IF Greater(y2, FromInt(kBlockSize * 50 * 50))
              THEN \/ Greater(Times(10, e2_main), Times(3, y2))
                   \/ Greater(Times(10, e2_shadow), y2)
              ELSE converged
    ELSE converged

\* The X2 handed to the shadow gain computer: recomputed when the partition
\* counts differ at that point, else the one computed for the main filter.
ShadowX2(X2, render_buffer, shadow_filter, main_filter) ==
  IF shadow_filter.size_partitions # main_filter.size_partitions
    THEN SpectralSum(render_buffer, shadow_filter.size_partitions)
    ELSE X2

\* ProcessOutput taking E2_shadow from E_main.
ProcessOutput_ShadowFromMain(out, S_main, S_shadow, y) ==
  LET pe_main == PredictionError(S_main, y, TRUE)
      e_main == pe_main.e
      E_main == ZeroPaddedFft(e_main, "kHanning")
      E_main_nonwindowed == ZeroPaddedFft(e_main, "kRectangular")
      e_shadow == PredictionError(S_shadow, y, FALSE).e
  IN [out EXCEPT !.s_main = pe_main.s,
                 !.e_main = e_main,
                 !.e_shadow = e_shadow,
                 !.E_main = E_main,
                 !.E_main_nonwindowed = E_main_nonwindowed,
                 !.E2_main = Spectrum(E_main),
                 !.E2_main_nonwindowed = Spectrum(E_main_nonwindowed),
                 !.E2_shadow = Spectrum(E_main)]

\* What Process writes to the output record: the two prediction errors,
\* the main echo estimate, the transforms and the spectra.  E_shadow is a
\* local of Process.
ProcessOutput(out, S_main, S_shadow, y) ==
  LET pe_main == PredictionError(S_main, y, TRUE)
      e_main == pe_main.e
      E_main == ZeroPaddedFft(e_main, "kHanning")
      E_main_nonwindowed == ZeroPaddedFft(e_main, "kRectangular")
      e_shadow == PredictionError(S_shadow, y, FALSE).e
      E_shadow == ZeroPaddedFft(e_shadow, "kHanning")
  IN [out EXCEPT !.s_main = pe_main.s,
                 !.e_main = e_main,
                 !.e_shadow = e_shadow,
                 !.E_main = E_main,
                 !.E_main_nonwindowed = E_main_nonwindowed,
                 !.E2_main = Spectrum(E_main),
                 !.E2_main_nonwindowed = Spectrum(E_main_nonwindowed),
                 !.E2_shadow = Spectrum(E_shadow)]

\* One block.  aec_state.SaturatedCapture() and render_signal_analyzer
\* reach the gain computers only, and through them the Adapt outcomes.
Process(render_buffer, capture, resizing) ==
  LET y == capture
      out == ProcessOutput(output, Filter(main_filter_, render_buffer),
                           Filter(shadow_filter_, render_buffer), y)
      X2 == SpectralSum(render_buffer, main_filter_.size_partitions)
  IN
  /\ output' = out
  /\ converged_filter_' =
       UpdateConverged(converged_filter_, out.e_main, out.e_shadow, y)
  /\ call' = [NoCall EXCEPT !.op = "Process",
                            !.render_buffer = render_buffer,
                            !.capture = capture,
                            !.converged_before = converged_filter_,
                            !.H_main = main_filter_.H,
                            !.H_shadow = shadow_filter_.H]
  /\ G_main_' = "adapted"
  /\ G_shadow_' = "adapted"
  /\ \E main_adapted \in AdaptOutcomes(main_filter_, resizing),
        shadow_adapted \in AdaptOutcomes(shadow_filter_, resizing) :
       /\ main_filter_' = main_adapted
       /\ shadow_compute' =
            [X2 |-> ShadowX2(X2, render_buffer, shadow_filter_, main_adapted),
             size_partitions |-> shadow_filter_.size_partitions]
       /\ shadow_filter_' = shadow_adapted

\* ----------------------------------------------------- specification

NewOutput ==
  [s_main |-> ZeroBlock, e_main |-> ZeroBlock, e_shadow |-> ZeroBlock,
   E_main |-> ZeroFftData, E_main_nonwindowed |-> ZeroFftData,
   E_shadow |-> ZeroFftData,
   E2_main |-> Spectrum(ZeroFftData),
   E2_main_nonwindowed |-> Spectrum(ZeroFftData),
   E2_shadow |-> Spectrum(ZeroFftData)]

\* The constructor: both filters get config.filter.length_blocks.
Init ==
  /\ main_filter_ = NewFilter(MaxPartitions)
  /\ shadow_filter_ = NewFilter(MaxPartitions)
  /\ G_main_ = "initial"
  /\ G_shadow_ = "initial"
  /\ converged_filter_ = FALSE
  /\ output = NewOutput
  /\ shadow_compute = [X2 |-> SpectralSum("silent", 0), size_partitions |-> 0]
  /\ call = NoCall

\* The filters as this file constructs them: one partition count for both,
\* kept for the life of the object.
Next ==
  \/ \E v \in EchoPathVariabilities : HandleEchoPathChange(v)
  \/ \E b \in Blocks : Process(b[1], b[2], FALSE)

Spec == Init /\ [][Next]_vars

\* The filters resizing while they adapt, which lets the two counts differ.
NextResizing ==
  \/ \E v \in EchoPathVariabilities : HandleEchoPathChange(v)
  \/ \E b \in Blocks : Process(b[1], b[2], TRUE)

SpecResizing == Init /\ [][NextResizing]_vars

\* ------------------------------------------------------------- claims

\* The four delay_change values that make HandleEchoPathChange reset.
Changed ==
  {"kBufferFlush", "kDelayReset", "kNewDetectedDelay", "kBufferReadjustment"}

Energy(block) == accumulate(block, 0, kBlockSize - 1)

\* kBlockSize * 2500, the capture energy a block must exceed.
EnergyFloor == FromInt(kBlockSize * 2500)

AboveFloor(y) == Greater(Energy(y), EnergyFloor)

\* The inverse transform of the estimate the latest Process call got from a
\* filter whose coefficients were h.
CallTmp(h) == Ifft([coeff |-> h, render |-> call.render_buffer])

InClipRange(a) == -32768 <= a /\ a <= 32767

\* C1: once converged_filter_ is true, the only step that makes it false is
\* a HandleEchoPathChange with one of the four changed categories; no
\* Process call does.
C1_MonotonicPerEpoch ==
  [][(converged_filter_ /\ ~converged_filter_')
       => (call'.op = "HandleEchoPathChange" /\ call'.delay_change \in Changed)]_vars

\* A Process call entered with the flag true whose energies would have
\* decided false: capture above the floor, both errors zero.
C1_Witness ==
  /\ call.op = "Process"
  /\ call.converged_before
  /\ converged_filter_
  /\ AboveFloor(call.capture)
  /\ output.e_main = ZeroBlock
  /\ output.e_shadow = ZeroBlock

\* C2: a Process call whose capture energy is at most kBlockSize * 2500
\* leaves converged_filter_ as it was, whatever the error energies.
C2_ConvergenceFloor ==
  (call.op = "Process" /\ ~AboveFloor(call.capture))
    => converged_filter_ = call.converged_before

\* A capture exactly at the floor, flag false, and a main error energy above
\* the capture energy: the ratio test alone would have set the flag.
C2_Witness ==
  /\ call.op = "Process"
  /\ ~call.converged_before
  /\ Energy(call.capture) = EnergyFloor
  /\ Greater(Energy(output.e_main), Energy(call.capture))
  /\ ~converged_filter_

\* C3: after HandleEchoPathChange with a changed category the flag is false,
\* both filters hold their initial coefficients and both gain computers are
\* reset; a second such call changes nothing.
C3_FullReset ==
  /\ [](call.op = "HandleEchoPathChange" /\ call.delay_change \in Changed
          => /\ converged_filter_ = FALSE
             /\ main_filter_.H = 0
             /\ shadow_filter_.H = 0
             /\ G_main_ = "initial"
             /\ G_shadow_ = "initial")
  /\ [][(/\ call.op = "HandleEchoPathChange"
         /\ call.delay_change \in Changed
         /\ call'.op = "HandleEchoPathChange"
         /\ call'.delay_change \in Changed)
          => subtractor' = subtractor]_vars

\* A reset of a converged subtractor whose filters had both adapted.
C3_Witness ==
  /\ call.op = "HandleEchoPathChange"
  /\ call.delay_change \in Changed
  /\ call.converged_before
  /\ call.H_main > 0
  /\ call.H_shadow > 0
  /\ ~converged_filter_
  /\ main_filter_.H = 0
  /\ shadow_filter_.H = 0

\* C4: HandleEchoPathChange with delay_change = kNone leaves the flag, both
\* filters and both gain computers as they were.
C4_NoChangeNoEffect ==
  [][(call'.op = "HandleEchoPathChange" /\ call'.delay_change = "kNone")
       => subtractor' = subtractor]_vars

\* A "no change" call on a converged, adapted subtractor.
C4_Witness ==
  /\ call.op = "HandleEchoPathChange"
  /\ call.delay_change = "kNone"
  /\ converged_filter_
  /\ main_filter_.H > 0
  /\ shadow_filter_.H > 0
  /\ G_main_ = "adapted"
  /\ G_shadow_ = "adapted"

C6_Clipped ==
  \A i \in Index : InClipRange(output.e_main[i]) /\ InClipRange(output.e_shadow[i])

\* A block clipped at both ends: the unclipped difference was above 32767 at
\* one sample and below -32768 at another.
C6_Witness ==
  /\ call.op = "Process"
  /\ \E i \in Index :
       /\ kBlockSize * call.capture[i] - CallTmp(call.H_main)[kBlockSize + i]
            > kBlockSize * 32767
       /\ output.e_main[i] = 32767
  /\ \E j \in Index :
       /\ kBlockSize * call.capture[j] - CallTmp(call.H_shadow)[kBlockSize + j]
            < kBlockSize * (-32768)
       /\ output.e_shadow[j] = -32768

\* C7: a Process call entered with the flag false, both estimates zero and
\* the capture within the clip range gives e_main = e_shadow = y, and sets
\* the flag whenever the capture energy exceeds kBlockSize * 2500.
C7_ZeroPrediction ==
  (/\ call.op = "Process"
   /\ ~call.converged_before
   /\ \A i \in Index :
        /\ CallTmp(call.H_main)[kBlockSize + i] = 0
        /\ CallTmp(call.H_shadow)[kBlockSize + i] = 0
        /\ InClipRange(call.capture[i]))
    => /\ output.e_main = call.capture
       /\ output.e_shadow = call.capture
       /\ (AboveFloor(call.capture) => converged_filter_)

\* Zero-initialised filters, render and capture full scale alternating.
C7_Witness ==
  /\ call.op = "Process"
  /\ ~call.converged_before
  /\ call.H_main = 0
  /\ call.H_shadow = 0
  /\ call.render_buffer = "full"
  /\ call.capture = AltBlock(32767)
  /\ output.e_main = call.capture
  /\ output.e_shadow = call.capture
  /\ converged_filter_

\* C8 as stated: after Process the output record holds E_shadow, the
\* Hann-windowed transform of e_shadow.
C8_OutputHoldsShadowSpectrum ==
  call.op = "Process"
    => output.E_shadow = ZeroPaddedFft(output.e_shadow, "kHanning")

\* C8 amended: after Process the record holds E_main, E_main_nonwindowed and
\* the three power spectra, E2_shadow being that of the Hann-windowed
\* transform of e_shadow; the record's E_shadow is not written.
C8_OutputSpectra ==
  call.op = "Process"
    => /\ output.E_main = ZeroPaddedFft(output.e_main, "kHanning")
       /\ output.E_main_nonwindowed = ZeroPaddedFft(output.e_main, "kRectangular")
       /\ output.E2_main = Spectrum(output.E_main)
       /\ output.E2_main_nonwindowed = Spectrum(output.E_main_nonwindowed)
       /\ output.E2_shadow =
            Spectrum(ZeroPaddedFft(output.e_shadow, "kHanning"))
       /\ output.E_shadow = NewOutput.E_shadow

\* A call with a non-zero shadow error that differs from the main error.
C8_Witness ==
  /\ call.op = "Process"
  /\ output.e_shadow # ZeroBlock
  /\ output.e_shadow # output.e_main
  /\ output.E2_shadow = Spectrum(ZeroPaddedFft(output.e_shadow, "kHanning"))
  /\ output.E_shadow # ZeroPaddedFft(output.e_shadow, "kHanning")

\* C9: a Process call entered with the flag false and capture energy y2
\* above kBlockSize * 2500 leaves the flag true exactly when
\* e2_main > 0.3 * y2 or e2_shadow > 0.1 * y2.
C9_DecisionRule ==
  (call.op = "Process" /\ ~call.converged_before /\ AboveFloor(call.capture))
    => (converged_filter_ <=>
          \/ Greater(Times(10, Energy(output.e_main)),
                     Times(3, Energy(call.capture)))
          \/ Greater(Times(10, Energy(output.e_shadow)),
                     Energy(call.capture)))

\* The shadow clause alone decides: e2_main is a quarter of y2, not above
\* 0.3 * y2, and e2_shadow is above 0.1 * y2.
C9_Witness ==
  /\ call.op = "Process"
  /\ ~call.converged_before
  /\ AboveFloor(call.capture)
  /\ Times(4, Energy(output.e_main)) = Energy(call.capture)
  /\ Greater(Times(10, Energy(output.e_shadow)), Energy(call.capture))
  /\ converged_filter_

\* C10 as stated: the second half of the inverse transform is scaled by
\* 1 / (2 * kBlockSize).
C10_ScaledByTwiceBlockSize ==
  call.op = "Process"
    => \A i \in Index :
         output.s_main[i] * (2 * kBlockSize) = CallTmp(call.H_main)[kBlockSize + i]

\* C10 amended: the second half of the inverse transform is scaled by
\* 1 / kFftLengthBy2, one over the block size: s[i] = tmp[kBlockSize + i] /
\* kBlockSize, and where the difference is within the clip range
\* e[i] = y[i] - s[i], for the main and for the shadow error.
C10_ScaledByBlockSize ==
  call.op = "Process"
    => \A i \in Index :
         LET t_main == CallTmp(call.H_main)[kBlockSize + i]
             t_shadow == CallTmp(call.H_shadow)[kBlockSize + i]
             y == call.capture[i]
         IN /\ output.s_main[i] * kBlockSize = t_main
            /\ InClipRange(y - output.s_main[i])
                 => output.e_main[i] + output.s_main[i] = y
            /\ (kBlockSize * (-32768) <= kBlockSize * y - t_shadow
                /\ kBlockSize * y - t_shadow <= kBlockSize * 32767)
                 => kBlockSize * output.e_shadow[i] = kBlockSize * y - t_shadow

\* A non-zero estimate: s_main is the render tone, e_main what is left.
C10_Witness ==
  /\ call.op = "Process"
  /\ call.H_main = 1
  /\ call.render_buffer = "tone"
  /\ call.capture = ConstBlock(2000)
  /\ output.s_main = ConstBlock(1000)
  /\ output.e_main = ConstBlock(1000)

====
